---- MODULE Spec2Model ----
(***************************************************************************)
(* Model of mentat's edit pipeline:                                        *)
(*   - CodeFileManager.write_changes_to_files (mentat/code_file_manager.py)*)
(*   - BlockParser, the block dialect (mentat/parsers/block_parser.py)     *)
(*   - FileEdit.get_updated_file_lines and the streaming Parser, which are *)
(*     not part of the sources at hand and are modelled from the design    *)
(*     document.                                                           *)
(*                                                                         *)
(* A file's text is represented by the list of lines text.split("\n")      *)
(* gives (never empty: "".split("\n") = [""]); lines hold no newline.      *)
(***************************************************************************)
EXTENDS Integers, Sequences, FiniteSets, TLC

VARIABLES
    disk,        \* the filesystem: existing path -> lines of its text
    files,       \* code_context.files: the tracked paths
    file_lines,  \* CodeFileManager.file_lines: snapshot, path -> lines
    pc,          \* position of write_changes_to_files: running | done | error
    error,       \* the exception that left write_changes_to_files, or None
    idx,         \* the number of FileEdits of the list taken so far
    last,        \* what the last loop iteration did (history)
    history,     \* what the engine has done to each path so far (history)
    rename_map,  \* the parse session's rename alias table, path -> path
    file_edits,  \* the parse session's completed FileEdits, in order
    decoded,     \* the last block given to the dialect and what it returned
    text,        \* the streamed response, a sequence of characters
    pos,         \* the number of characters of text received so far
    stream,      \* the streaming parser: mode, line in progress, buffers, prose
    config_files,   \* the three config files: layer -> absent or its content
    config_pc,      \* ConfigManager.__init__: new | constructed | raised
    user_config,    \* ConfigManager.user_config
    project_config, \* ConfigManager.project_config
    default_config, \* ConfigManager.default_config
    warnings,       \* the warnings the constructor sent to the stream
    lookup,         \* the last _get_key call: its key and what came of it
    client_pc,      \* position of TerminalClient._run, or raised | exited
    session,        \* TerminalClient.session: unset | created | running | stopped
    should_exit,    \* TerminalClient._should_exit is set
    tasks,          \* TerminalClient._tasks
    loop_tasks,     \* the event loop's tasks: task -> its state
    interrupt_lock, \* session.stream.interrupt_lock is held
    channel,        \* the messages sent on the stream's interrupt channel
    sigint          \* the SIGINTs delivered so far (history)

vars == <<disk, files, file_lines, pc, error, idx, last, history,
          rename_map, file_edits, decoded, text, pos, stream,
          config_files, config_pc, user_config, project_config,
          default_config, warnings, lookup,
          client_pc, session, should_exit, tasks, loop_tasks, interrupt_lock,
          channel, sigint>>

configVars == <<config_files, config_pc, user_config, project_config,
                default_config, warnings, lookup>>

clientVars == <<client_pc, session, should_exit, tasks, loop_tasks,
                interrupt_lock, channel, sigint>>

appVars == <<configVars, clientVars>>

streamVars == <<text, pos, stream>>

engineVars == <<disk, files, pc, error, idx, last, history>>

parserVars == <<rename_map, file_edits, decoded>>

None == "None"

\* ------------------------------------------------------------------ bounds
\* the longest list of FileEdits given to write_changes_to_files
MaxEdits == 2

\* the longest file, and the largest line number of a replacement, where the
\* content written is studied
MaxLines == 3

Paths == {"a", "b"}

Lines == {"x", "y"}

\* the contents files have when the snapshot is taken, and the contents an
\* external writer leaves
InitContents == {<<"x", "y">>}

ExternalContents == {<<"y">>}

\* ----------------------------------------------------------- list helpers
\* Python slice s[lo:hi] for 0 <= lo, 0 <= hi (0-indexed, half-open, clamped)
Slice(s, lo, hi) ==
    LET h == IF hi > Len(s) THEN Len(s) ELSE hi
    IN  IF lo >= h THEN <<>> ELSE [i \in 1..(h - lo) |-> s[lo + i]]

\* sequences over S of length at most n
SeqsUpTo(S, n) == UNION {[1..k -> S] : k \in 0..n}

\* ----------------------------------------------------------- file system
Exists(d, p) == p \in DOMAIN d

\* text.split("\n") of "\n".join(lines): the lines a later read_file returns
JoinSplit(lines) == IF lines = <<>> THEN <<"">> ELSE lines

\* open(p, "w").write(text)
WriteFile(d, p, lines) ==
    [q \in DOMAIN d \cup {p} |-> IF q = p THEN JoinSplit(lines) ELSE d[q]]

\* Path.unlink()
Unlink(d, p) == [q \in DOMAIN d \ {p} |-> d[q]]

\* read_file: open(p).read().split("\n")
read_file(d, p) == d[p]

\* ---------------------------------------------------------------- edits
Replacement(s, e, nl) == [start |-> s, end |-> e, new_lines |-> nl]

\* two half-open ranges over the same snapshot share a line
Overlap(r1, r2) == r1.start < r2.end /\ r2.start < r1.end

HasOverlap(rs) ==
    \E i, j \in 1..Len(rs) : i < j /\ Overlap(rs[i], rs[j])

\* the orders in which a sort by descending start may leave rs: the
\* permutations of rs whose starts never increase
SortedDescending(rs) ==
    LET n == Len(rs)
        Perms == {f \in [1..n -> 1..n] : \A i, j \in 1..n : i # j => f[i] # f[j]}
    IN  IF n <= 1 THEN {rs}
        ELSE {[i \in 1..n |-> rs[f[i]]] : f \in
                {g \in Perms : \A i \in 1..n, j \in 1..n :
                                  i < j => rs[g[i]].start >= rs[g[j]].start}}

\* one replacement applied to lines
ApplyReplacement(lines, r) ==
    Slice(lines, 0, r.start) \o r.new_lines \o Slice(lines, r.end, Len(lines))

RECURSIVE ApplyInOrder(_, _)
ApplyInOrder(lines, rs) ==
    IF rs = <<>> THEN lines
    ELSE ApplyInOrder(ApplyReplacement(lines, Head(rs)), Tail(rs))

\* FileEdit.get_updated_file_lines(stored_lines), given the sorted
\* replacements: overlapping ranges are rejected, otherwise each replacement
\* is applied against the original line numbers, bottom of file first
get_updated_file_lines(sorted, stored_lines) ==
    IF HasOverlap(sorted)
    THEN [ok |-> FALSE, lines |-> <<>>]
    ELSE [ok |-> TRUE, lines |-> ApplyInOrder(stored_lines, sorted)]

\* ------------------------------------------- write_changes_to_files
\* The state of one loop iteration (one FileEdit):
\*   disk, files  the filesystem and the tracked set so far
\*   path         file_edit.file_path (reassigned by a rename)
\*   stored       stored_lines
\*   log          what the iteration did so far, in order: the confirmations
\*                requested (with the answer) and the filesystem operations
\*   st           go | continue (the edit is finished) | raise
\*   err          the exception raised
Asked(kind, answer) == [ev |-> "ask", arg |-> kind, ans |-> answer]

Did(op, p) == [ev |-> op, arg |-> p, ans |-> FALSE]

Frame(d, fs, e) ==
    [disk |-> d, files |-> fs, path |-> e.file_path, stored |-> <<>>,
     log |-> <<>>, st |-> "go", err |-> None]

\* the exception is recorded but the loop goes on with the next FileEdit
RaiseAndGoOn(f, what) == [f EXCEPT !.st = "continue", !.err = what]

\* raise MentatError(...): the iteration and the loop end
Raise(f, what) == [f EXCEPT !.st = "raise", !.err = what]

\* await ask_yes_no(default_yes=False)
Ask(f, kind, answer) == [f EXCEPT !.log = Append(@, Asked(kind, answer))]

\* _add_file without line 50: the path is not put in code_context.files
AddFileUntracked(f, p) ==
    [f EXCEPT !.disk = WriteFile(@, p, <<>>),
              !.log = Append(@, Did("add", p))]

\* CodeFileManager._add_file
AddFile(f, p) ==
    [f EXCEPT !.files = @ \cup {p},
              !.disk = WriteFile(@, p, <<>>),
              !.log = Append(@, Did("add", p))]

\* _delete_file without lines 58-59: the path stays in code_context.files
DeleteFileStaysTracked(f, p) ==
    IF ~Exists(f.disk, p)
    THEN Raise(f, "FileNotFoundError")
    ELSE [f EXCEPT !.disk = Unlink(@, p),
                   !.log = Append(@, Did("unlink", p))]

\* CodeFileManager._delete_file
DeleteFile(f, p) ==
    IF ~Exists(f.disk, p)
    THEN Raise([f EXCEPT !.files = @ \ {p}], "FileNotFoundError")
    ELSE [f EXCEPT !.files = @ \ {p},
                   !.disk = Unlink(@, p),
                   !.log = Append(@, Did("unlink", p))]

\* the checks of lines 73-88 without the test against code_context.files
CheckTargetNoContext(e, f) ==
    IF e.is_creation
    THEN IF Exists(f.disk, e.file_path)
         THEN Raise(f, "create existing file")
         ELSE AddFile(f, e.file_path)
    ELSE IF ~Exists(f.disk, e.file_path)
         THEN Raise(f, "edit non-existent file")
         ELSE f

\* lines 73-88: creation, or the existence and tracking checks
CheckTarget(e, f) ==
    IF e.is_creation
    THEN IF Exists(f.disk, e.file_path)
         THEN Raise(f, "create existing file")
         ELSE AddFile(f, e.file_path)
    ELSE IF ~Exists(f.disk, e.file_path)
         THEN Raise(f, "edit non-existent file")
         ELSE IF e.file_path \notin f.files
              THEN Raise(f, "edit file not in context")
              ELSE f

\* lines 90-99 without the call of _delete_file at line 96
ConfirmDeletionOnlyAsks(e, f, delAns) ==
    IF f.st # "go" \/ ~e.is_deletion THEN f
    ELSE LET g == Ask(f, "delete", delAns)
         IN  IF delAns THEN [g EXCEPT !.st = "continue"] ELSE g

\* lines 90-99: the deletion confirmation
ConfirmDeletion(e, f, delAns) ==
    IF f.st # "go" \/ ~e.is_deletion THEN f
    ELSE LET g == Ask(f, "delete", delAns)
         IN  IF delAns
             THEN LET h == DeleteFile(g, e.file_path)
                  IN  IF h.st = "go" THEN [h EXCEPT !.st = "continue"] ELSE h
             ELSE g

\* lines 101-115 with the branches of `if not file_edit.is_creation`
\* exchanged: stored_lines is empty for an existing file
CheckConflictNoStored(e, f, snapshot, confAns) ==
    IF f.st # "go" THEN f
    ELSE IF ~e.is_creation THEN [f EXCEPT !.stored = <<>>]
    ELSE IF e.file_path \notin DOMAIN snapshot THEN Raise(f, "KeyError")
    ELSE [f EXCEPT !.stored = snapshot[e.file_path]]

\* lines 101-115: stored_lines and the conflict confirmation; a declined
\* confirmation only sends a message
CheckConflict(e, f, snapshot, confAns) ==
    IF f.st # "go" THEN f
    ELSE IF e.is_creation THEN [f EXCEPT !.stored = <<>>]
    ELSE IF e.file_path \notin DOMAIN snapshot THEN Raise(f, "KeyError")
    ELSE LET g == [f EXCEPT !.stored = snapshot[e.file_path]]
         IN  IF g.stored # read_file(g.disk, e.file_path)
             THEN Ask(g, "conflict", confAns)
             ELSE g

\* lines 117-125 without the test of the destination
RenameOverExisting(e, f) ==
    IF f.st # "go" \/ e.rename_file_path = None THEN f
    ELSE LET g == DeleteFile(AddFile(f, e.rename_file_path), e.file_path)
         IN  [g EXCEPT !.path = e.rename_file_path]

\* lines 117-125 with _add_file called before the test of line 118
RenameAddsFirst(e, f) ==
    IF f.st # "go" \/ e.rename_file_path = None THEN f
    ELSE IF Exists(f.disk, e.rename_file_path)
         THEN Raise(AddFile(f, e.rename_file_path), "rename to existing file")
         ELSE LET g == DeleteFile(AddFile(f, e.rename_file_path), e.file_path)
              IN  [g EXCEPT !.path = e.rename_file_path]

\* lines 117-125: rename as add at the destination, delete at the source
Rename(e, f) ==
    IF f.st # "go" \/ e.rename_file_path = None THEN f
    ELSE IF Exists(f.disk, e.rename_file_path)
         THEN Raise(f, "rename to existing file")
         ELSE LET g == DeleteFile(AddFile(f, e.rename_file_path), e.file_path)
              IN  [g EXCEPT !.path = e.rename_file_path]

\* lines 127-129 writing stored_lines where new_lines is meant
WriteChangesStored(sorted, f) ==
    IF f.st # "go" THEN f
    ELSE LET new == get_updated_file_lines(sorted, f.stored)
         IN  IF ~new.ok THEN Raise(f, "overlapping replacements")
             ELSE [f EXCEPT !.disk = WriteFile(@, f.path, f.stored),
                            !.log = Append(@, Did("write", f.path)),
                            !.st = "continue"]

\* lines 127-129: the new content, written as one whole-file overwrite
WriteChanges(sorted, f) ==
    IF f.st # "go" THEN f
    ELSE LET new == get_updated_file_lines(sorted, f.stored)
         IN  IF ~new.ok THEN Raise(f, "overlapping replacements")
             ELSE [f EXCEPT !.disk = WriteFile(@, f.path, new.lines),
                            !.log = Append(@, Did("write", f.path)),
                            !.st = "continue"]

\* one iteration of the loop of write_changes_to_files
ProcessFileEdit(d, fs, snapshot, e, sorted, delAns, confAns) ==
    LET checked   == CheckTarget(e, Frame(d, fs, e))
        deleted   == ConfirmDeletion(e, checked, delAns)
        compared  == CheckConflict(e, deleted, snapshot, confAns)
        renamed   == Rename(e, compared)
    IN  WriteChanges(sorted, renamed)

\* ------------------------------------------------------ block dialect
\* json_data.get(key, None) of an absent line-number key
NoLine == -9

\* the largest line number of a header
MaxLineNo == 2

LineNos == 0..MaxLineNo

\* _BlockParserAction
Actions ==
    {"insert", "replace", "delete", "create-file", "delete-file", "rename-file"}

\* _BlockParserDeserializedJson: the header's JSON object, an absent key
\* being None (NoLine for a line number); parsed is FALSE when the header
\* lines are no JSON object
Header(f, a, n, bl, al, sl, el) ==
    [parsed |-> TRUE, file |-> f, action |-> a, name |-> n,
     before_line |-> bl, after_line |-> al, start_line |-> sl, end_line |-> el]

Malformed ==
    [parsed |-> FALSE, file |-> None, action |-> None, name |-> None,
     before_line |-> NoLine, after_line |-> NoLine,
     start_line |-> NoLine, end_line |-> NoLine]

\* FileActionType of an action
FileAction(a) ==
    CASE a = "create-file" -> "CreateFile"
      [] a = "delete-file" -> "DeleteFile"
      [] a = "rename-file" -> "RenameFile"
      [] OTHER -> "UpdateFile"

\* lines 108-129 comparing insert-after-line with insert-before-line itself
HeaderRangeSameLine(h) ==
    CASE h.action = "insert" ->
           IF h.before_line # NoLine
           THEN IF h.after_line # NoLine /\ h.before_line # h.after_line
                THEN [ok |-> FALSE, err |-> "ValueError", start |-> 0, end |-> 0]
                ELSE [ok |-> TRUE, err |-> None,
                      start |-> h.before_line - 1, end |-> h.before_line - 1]
           ELSE IF h.after_line # NoLine
                THEN [ok |-> TRUE, err |-> None,
                      start |-> h.after_line, end |-> h.after_line]
                ELSE [ok |-> FALSE, err |-> "ValueError", start |-> 0, end |-> 0]
      [] h.action \in {"replace", "delete"} ->
           IF h.start_line = NoLine
           THEN [ok |-> FALSE, err |-> "TypeError", start |-> 0, end |-> 0]
           ELSE [ok |-> TRUE, err |-> None,
                 start |-> h.start_line - 1, end |-> h.end_line]
      [] OTHER -> [ok |-> TRUE, err |-> None, start |-> 0, end |-> 0]

\* lines 108-129 taking the header's start-line as the range's start
HeaderRangeOneBased(h) ==
    CASE h.action = "insert" ->
           IF h.before_line # NoLine
           THEN IF h.after_line # NoLine /\ h.before_line - 1 # h.after_line
                THEN [ok |-> FALSE, err |-> "ValueError", start |-> 0, end |-> 0]
                ELSE [ok |-> TRUE, err |-> None,
                      start |-> h.before_line - 1, end |-> h.before_line - 1]
           ELSE IF h.after_line # NoLine
                THEN [ok |-> TRUE, err |-> None,
                      start |-> h.after_line, end |-> h.after_line]
                ELSE [ok |-> FALSE, err |-> "ValueError", start |-> 0, end |-> 0]
      [] h.action \in {"replace", "delete"} ->
           IF h.start_line = NoLine
           THEN [ok |-> FALSE, err |-> "TypeError", start |-> 0, end |-> 0]
           ELSE [ok |-> TRUE, err |-> None,
                 start |-> h.start_line, end |-> h.end_line]
      [] OTHER -> [ok |-> TRUE, err |-> None, start |-> 0, end |-> 0]

\* lines 108-129: the range of the header; ok is FALSE when a ValueError (or,
\* for a replace or delete without start-line, a TypeError) is raised
HeaderRange(h) ==
    CASE h.action = "insert" ->
           IF h.before_line # NoLine
           THEN IF h.after_line # NoLine /\ h.before_line - 1 # h.after_line
                THEN [ok |-> FALSE, err |-> "ValueError", start |-> 0, end |-> 0]
                ELSE [ok |-> TRUE, err |-> None,
                      start |-> h.before_line - 1, end |-> h.before_line - 1]
           ELSE IF h.after_line # NoLine
                THEN [ok |-> TRUE, err |-> None,
                      start |-> h.after_line, end |-> h.after_line]
                ELSE [ok |-> FALSE, err |-> "ValueError", start |-> 0, end |-> 0]
      [] h.action \in {"replace", "delete"} ->
           IF h.start_line = NoLine
           THEN [ok |-> FALSE, err |-> "TypeError", start |-> 0, end |-> 0]
           ELSE [ok |-> TRUE, err |-> None,
                 start |-> h.start_line - 1, end |-> h.end_line]
      [] OTHER -> [ok |-> TRUE, err |-> None, start |-> 0, end |-> 0]

\* rename_map.get(path, path)
Resolve(rmap, p) == IF p \in DOMAIN rmap THEN rmap[p] ELSE p

NoFileEdit ==
    [file_path |-> None, replacements |-> <<>>, is_creation |-> FALSE,
     is_deletion |-> FALSE, rename_file_path |-> None]

\* an exception that is swallowed: the caller gets an empty FileEdit
FailedWithEdit(what) ==
    [ok |-> TRUE, err |-> what, file_edit |-> NoFileEdit, has_code |-> FALSE,
     first_changed_line |-> 0, last_changed_line |-> 0,
     file_action |-> "UpdateFile", snapshot_of |-> None]

\* the exception raised by _special_block: no value is returned
Failed(what) ==
    [ok |-> FALSE, err |-> what, file_edit |-> NoFileEdit, has_code |-> FALSE,
     first_changed_line |-> 0, last_changed_line |-> 0,
     file_action |-> None, snapshot_of |-> None]

\* _special_block building the FileEdit on the path the alias table gives
special_block_resolved(snapshot, rmap, h, closing) ==
    IF ~h.parsed THEN Failed("JSONDecodeError")
    ELSE IF h.action # None /\ h.action \notin Actions THEN Failed("ValueError")
    ELSE IF h.action = None THEN Failed("ValueError")
    ELSE LET range == HeaderRange(h)
             file_action == FileAction(h.action)
         IN  IF ~range.ok THEN Failed(range.err)
             ELSE IF h.file = None THEN Failed("TypeError")
             ELSE IF /\ file_action # "CreateFile"
                     /\ Resolve(rmap, h.file) \notin DOMAIN snapshot
                  THEN Failed("KeyError")
             ELSE [ok |-> TRUE, err |-> None,
                   file_edit |->
                     [file_path |-> Resolve(rmap, h.file),
                      replacements |->
                        IF h.action = "delete"
                        THEN <<Replacement(range.start, range.end, <<>>)>>
                        ELSE <<>>,
                      is_creation |-> file_action = "CreateFile",
                      is_deletion |-> file_action = "DeleteFile",
                      rename_file_path |-> h.name],
                   has_code |-> closing = "@@code",
                   first_changed_line |-> range.start,
                   last_changed_line |-> range.end,
                   file_action |-> file_action,
                   snapshot_of |->
                     IF file_action = "CreateFile" THEN None
                     ELSE Resolve(rmap, h.file)]

\* BlockParser._special_block: (display_information, file_edit, has_code),
\* or the exception raised; closing is block[-1]
special_block(snapshot, rmap, h, closing) ==
    IF ~h.parsed THEN Failed("JSONDecodeError")
    ELSE IF h.action # None /\ h.action \notin Actions THEN Failed("ValueError")
    ELSE IF h.action = None THEN Failed("ValueError")
    ELSE LET range == HeaderRange(h)
             file_action == FileAction(h.action)
         IN  IF ~range.ok THEN Failed(range.err)
             ELSE IF h.file = None THEN Failed("TypeError")
             ELSE IF /\ file_action # "CreateFile"
                     /\ Resolve(rmap, h.file) \notin DOMAIN snapshot
                  THEN Failed("KeyError")
             ELSE [ok |-> TRUE, err |-> None,
                   file_edit |->
                     [file_path |-> h.file,
                      replacements |->
                        IF h.action = "delete"
                        THEN <<Replacement(range.start, range.end, <<>>)>>
                        ELSE <<>>,
                      is_creation |-> file_action = "CreateFile",
                      is_deletion |-> file_action = "DeleteFile",
                      rename_file_path |-> h.name],
                   has_code |-> closing = "@@code",
                   first_changed_line |-> range.start,
                   last_changed_line |-> range.end,
                   file_action |-> file_action,
                   snapshot_of |->
                     IF file_action = "CreateFile" THEN None
                     ELSE Resolve(rmap, h.file)]

\* code_block.split("\n")[:-1], which keeps the end marker line
CodeLinesWithMarker(code_block_lines) ==
    Slice(code_block_lines, 0, Len(code_block_lines) - 1)

\* code_block.split("\n")[:-2]: the text handed to _add_code_block ends with
\* the end marker line and a newline
CodeLines(code_block_lines) ==
    Slice(code_block_lines, 0, Len(code_block_lines) - 2)

\* BlockParser._add_code_block
add_code_block(code_block_lines, d) ==
    [d.file_edit EXCEPT !.replacements =
        Append(@, Replacement(d.first_changed_line, d.last_changed_line,
                              CodeLines(code_block_lines)))]

\* the streaming parser before the first fragment: Prose mode, nothing
\* buffered, nothing shown; held_back records that a fragment ended inside a
\* line that was held back, edits_at_start the number of completed edits
\* when the block in progress began, outcome how the parse ended
NoStream ==
    [mode |-> "Prose", cur_line |-> <<>>, shown |-> 0, block |-> <<>>,
     code |-> <<>>, prose |-> <<>>, result |-> Failed(None),
     held_back |-> FALSE, edits_at_start |-> 0, outcome |-> "open"]

StreamIdle ==
    /\ text = <<>>
    /\ pos = 0
    /\ stream = NoStream

ParserIdle ==
    /\ rename_map = <<>>
    /\ file_edits = <<>>
    /\ decoded = [header |-> Malformed, closing |-> None, code |-> <<>>,
                  result |-> Failed(None)]
    /\ StreamIdle

\* no path added or unlinked by the engine yet
NoHistory == [added |-> {}, unlinked |-> {}, latest |-> <<>>]

\* the additions and unlinks of a log, in order, joined to the history
RECURSIVE Recorded(_, _)
Recorded(h, log) ==
    IF log = <<>> THEN h
    ELSE LET ev == Head(log)
             g == IF ev.ev = "add"
                  THEN [added |-> h.added \cup {ev.arg},
                        unlinked |-> h.unlinked,
                        latest |-> [p \in DOMAIN h.latest \cup {ev.arg} |->
                                      IF p = ev.arg THEN "add"
                                      ELSE h.latest[p]]]
                  ELSE IF ev.ev = "unlink"
                  THEN [added |-> h.added,
                        unlinked |-> h.unlinked \cup {ev.arg},
                        latest |-> [p \in DOMAIN h.latest \cup {ev.arg} |->
                                      IF p = ev.arg THEN "unlink"
                                      ELSE h.latest[p]]]
                  ELSE h
         IN  Recorded(g, Tail(log))

EngineIdle ==
    /\ history = NoHistory
    /\ disk = <<>>
    /\ files = {}
    /\ pc = "idle"
    /\ error = None
    /\ idx = 0
    /\ last = [edit |-> NoFileEdit, log |-> <<>>, st |-> "none"]

\* ---------------------------------------------------- ConfigManager
\* the configuration keys looked up, and the three layers
ConfigKeys == {"model", "format"}

Layers == {"user", "project", "default"}

\* a JSON object of a layer: each key it holds maps to a value naming the layer
ConfigOf(layer, keys) == [k \in keys |-> layer]

\* a config file: whether it exists, whether its text parses, and the object
\* it parses to
ValidJson(data) == [exists |-> TRUE, valid |-> TRUE, data |-> data]

InvalidJson == [exists |-> TRUE, valid |-> FALSE, data |-> <<>>]

Absent == [exists |-> FALSE, valid |-> FALSE, data |-> <<>>]

\* json.load: the parsed object, or JSONDecodeError
json_load(content) ==
    IF content.valid
    THEN [raised |-> None, value |-> content.data]
    ELSE [raised |-> "JSONDecodeError", value |-> <<>>]

InvalidJsonWarning(layer) == <<"invalid json", layer>>

\* a variant of LoadLayer that lets JSONDecodeError leave the constructor
LoadLayerUncaught(layer) ==
    IF ~config_files[layer].exists
    THEN [config |-> <<>>, sent |-> <<>>, raised |-> None]
    ELSE LET r == json_load(config_files[layer])
         IN  [config |-> r.value, sent |-> <<>>, raised |-> r.raised]

\* the user and the project layer of __init__: a missing file and a file that
\* is not JSON both give the empty dict, the second with a warning
LoadLayer(layer) ==
    IF ~config_files[layer].exists
    THEN [config |-> <<>>, sent |-> <<>>, raised |-> None]
    ELSE LET r == json_load(config_files[layer])
         IN  IF r.raised = None
             THEN [config |-> r.value, sent |-> <<>>, raised |-> None]
             ELSE [config |-> <<>>, sent |-> <<InvalidJsonWarning(layer)>>,
                   raised |-> None]

\* the default layer of __init__: loaded with no handler
LoadDefault ==
    LET r == json_load(config_files["default"])
    IN  [config |-> r.value, sent |-> <<>>, raised |-> r.raised]

\* a variant of _get_key that asks the user layer first
get_key_user_first(key) ==
    IF key \in DOMAIN user_config THEN user_config[key]
    ELSE IF key \in DOMAIN project_config THEN project_config[key]
    ELSE IF key \in DOMAIN default_config THEN default_config[key]
    ELSE "ValueError"

\* _get_key: project, then user, then default, else ValueError
get_key(key) ==
    IF key \in DOMAIN project_config THEN project_config[key]
    ELSE IF key \in DOMAIN user_config THEN user_config[key]
    ELSE IF key \in DOMAIN default_config THEN default_config[key]
    ELSE "ValueError"

NoLookup == [key |-> None, value |-> None]

ConfigIdle ==
    /\ config_files = <<>>
    /\ config_pc = "idle"
    /\ user_config = <<>>
    /\ project_config = <<>>
    /\ default_config = <<>>
    /\ warnings = <<>>
    /\ lookup = NoLookup

\* ---------------------------------------------------- TerminalClient
MaxSigInts == 3

\* a task of the event loop: the coroutine it runs, numbered per creation
Task(coro, n) == [coro |-> coro, n |-> n]

\* the four tasks _startup creates
StartupTasks ==
    {Task("refresh_completions", 0), Task("_cprint_session_stream", 0),
     Task("_handle_input_requests", 0), Task("_listen_for_exit", 0)}

\* asyncio.create_task: the tasks of ts enter the loop, not yet finished
Scheduled(state, ts) ==
    [t \in DOMAIN state \cup ts |-> IF t \in ts THEN "pending" ELSE state[t]]

\* a task returns: it is done, its done-callbacks are yet to be called
Finished(state, t) == [state EXCEPT ![t] = "finished"]

\* a variant of CancelAll that cancels nothing
CancelNone(state, ts) == state

\* task.cancel() for every task of ts: a task not yet done is to be
\* cancelled at its next step, a done one is left as it is
CancelAll(state, ts) ==
    [t \in DOMAIN state |->
        IF t \in ts /\ state[t] = "pending" THEN "cancelling" ELSE state[t]]

ClientIdle ==
    /\ client_pc = "idle"
    /\ session = "unset"
    /\ should_exit = FALSE
    /\ tasks = {}
    /\ loop_tasks = <<>>
    /\ interrupt_lock = FALSE
    /\ channel = 0
    /\ sigint = <<>>

AppIdle ==
    /\ ConfigIdle
    /\ ClientIdle

\* the states of one config file: absent, not JSON, or an object of the layer
ConfigFiles(layer) ==
    {Absent, InvalidJson}
        \cup {ValidJson(ConfigOf(layer, keys)) : keys \in SUBSET ConfigKeys}

\* the default config ships with the package: it exists and parses
InitConfig ==
    /\ config_files \in
         {[user |-> u, project |-> p, default |-> d] :
            u \in ConfigFiles("user"), p \in ConfigFiles("project"),
            d \in ConfigFiles("default") \ {Absent, InvalidJson}}
    /\ config_pc = "new"
    /\ user_config = <<>>
    /\ project_config = <<>>
    /\ default_config = <<>>
    /\ warnings = <<>>
    /\ lookup = NoLookup
    /\ ClientIdle
    /\ EngineIdle
    /\ ParserIdle
    /\ file_lines = <<>>

\* ConfigManager.__init__
Construct ==
    /\ config_pc = "new"
    /\ \E u \in {LoadLayer("user")}, p \in {LoadLayer("project")},
          d \in {LoadDefault} :
         IF u.raised = None /\ p.raised = None /\ d.raised = None
         THEN /\ config_pc' = "constructed"
              /\ user_config' = u.config
              /\ project_config' = p.config
              /\ default_config' = d.config
              /\ warnings' = u.sent \o p.sent
         ELSE /\ config_pc' = "raised"
              /\ UNCHANGED <<user_config, project_config, default_config,
                             warnings>>
    /\ UNCHANGED <<config_files, lookup>>
    /\ UNCHANGED <<engineVars, file_lines>>
    /\ UNCHANGED parserVars
    /\ UNCHANGED streamVars
    /\ UNCHANGED clientVars

\* one call of _get_key on the constructed manager
GetKey ==
    /\ config_pc = "constructed"
    /\ \E key \in ConfigKeys :
         lookup' = [key |-> key, value |-> get_key(key)]
    /\ UNCHANGED <<config_files, config_pc, user_config, project_config,
                   default_config, warnings>>
    /\ UNCHANGED <<engineVars, file_lines>>
    /\ UNCHANGED parserVars
    /\ UNCHANGED streamVars
    /\ UNCHANGED clientVars

NextConfig == Construct \/ GetKey

SpecConfig == InitConfig /\ [][NextConfig]_vars

\* ------------------------------------------- TerminalClient._run
\* everything but the client's own state
offClient == <<engineVars, file_lines, parserVars, streamVars, configVars>>

\* TerminalClient.__init__ has run: no task, should-exit clear, and no
\* attribute `session` assigned
InitClient ==
    /\ client_pc = "init"
    /\ session = "unset"
    /\ should_exit = FALSE
    /\ tasks = {}
    /\ loop_tasks = <<>>
    /\ interrupt_lock = FALSE
    /\ channel = 0
    /\ sigint = <<>>
    /\ ConfigIdle
    /\ EngineIdle
    /\ ParserIdle
    /\ file_lines = <<>>

\* _run: _init_signal_handlers
InstallHandlers ==
    /\ client_pc = "init"
    /\ client_pc' = "installed"
    /\ UNCHANGED <<session, should_exit, tasks, loop_tasks, interrupt_lock,
                   channel, sigint>>
    /\ UNCHANGED offClient

\* _startup: self.session = Session(...)
CreateSession ==
    /\ client_pc = "installed"
    /\ session' = "created"
    /\ client_pc' = "created"
    /\ UNCHANGED <<should_exit, tasks, loop_tasks, interrupt_lock, channel,
                   sigint>>
    /\ UNCHANGED offClient

\* _startup: session.start() and the four _create_task calls, then _main
StartSession ==
    /\ client_pc = "created"
    /\ session' = "running"
    /\ tasks' = tasks \cup StartupTasks
    /\ loop_tasks' = Scheduled(loop_tasks, StartupTasks)
    /\ client_pc' = "main"
    /\ UNCHANGED <<should_exit, interrupt_lock, channel, sigint>>
    /\ UNCHANGED offClient

\* a variant of Unlocked that takes the lock for free whatever its state
UnlockedAlways(locked) == TRUE

\* interrupt_lock.locked() is False
Unlocked(locked) == locked = FALSE

\* _handle_sig_int, run by the interpreter between any two steps of the
\* main thread once the handler is installed
HandleSigInt ==
    /\ client_pc \notin {"init", "raised", "exited"}
    /\ Len(sigint) < MaxSigInts
    /\ sigint' = Append(sigint, [session |-> session,
                                 locked |-> interrupt_lock,
                                 was_set |-> should_exit])
    /\ IF session = "unset"
       THEN \* line 99 reads an attribute __init__ never assigned
            /\ client_pc' = "raised"
            /\ UNCHANGED <<should_exit, tasks, loop_tasks>>
       ELSE IF Unlocked(interrupt_lock)
       THEN IF should_exit
            THEN /\ client_pc' = "exited"
                 /\ UNCHANGED <<should_exit, tasks, loop_tasks>>
            ELSE /\ should_exit' = TRUE
                 /\ UNCHANGED <<client_pc, tasks, loop_tasks>>
       ELSE \E t \in {Task("_send_session_stream_interrupt", Len(sigint) + 1)} :
                 /\ tasks' = tasks \cup {t}
                 /\ loop_tasks' = Scheduled(loop_tasks, {t})
                 /\ UNCHANGED <<client_pc, should_exit>>
    /\ UNCHANGED <<session, interrupt_lock, channel>>
    /\ UNCHANGED offClient

Alive == client_pc \notin {"raised", "exited"}

Runnable(t) == Alive /\ t \in DOMAIN loop_tasks /\ loop_tasks[t] = "pending"

\* the session takes or releases the interrupt lock of its stream
ToggleLock ==
    /\ Alive
    /\ session = "running"
    /\ interrupt_lock' = ~interrupt_lock
    /\ UNCHANGED <<client_pc, session, should_exit, tasks, loop_tasks, channel,
                   sigint>>
    /\ UNCHANGED offClient

\* mentat_completer.refresh_completions() returns
RefreshCompletions ==
    /\ Runnable(Task("refresh_completions", 0))
    /\ loop_tasks' = Finished(loop_tasks, Task("refresh_completions", 0))
    /\ UNCHANGED <<client_pc, session, should_exit, tasks, interrupt_lock,
                   channel, sigint>>
    /\ UNCHANGED offClient

\* _handle_input_requests: the user answers an input request with q
InputQuit ==
    /\ Runnable(Task("_handle_input_requests", 0))
    /\ session = "running"
    /\ should_exit' = TRUE
    /\ loop_tasks' = Finished(loop_tasks, Task("_handle_input_requests", 0))
    /\ UNCHANGED <<client_pc, session, tasks, interrupt_lock, channel, sigint>>
    /\ UNCHANGED offClient

\* _listen_for_exit: a message arrives on the exit channel
ListenForExit ==
    /\ Runnable(Task("_listen_for_exit", 0))
    /\ session = "running"
    /\ should_exit' = TRUE
    /\ loop_tasks' = Finished(loop_tasks, Task("_listen_for_exit", 0))
    /\ UNCHANGED <<client_pc, session, tasks, interrupt_lock, channel, sigint>>
    /\ UNCHANGED offClient

\* _send_session_stream_interrupt
SendInterrupt ==
    /\ \E t \in DOMAIN loop_tasks :
         /\ t.coro = "_send_session_stream_interrupt"
         /\ Runnable(t)
         /\ loop_tasks' = Finished(loop_tasks, t)
    /\ channel' = channel + 1
    /\ UNCHANGED <<client_pc, session, should_exit, tasks, interrupt_lock,
                   sigint>>
    /\ UNCHANGED offClient

\* a task whose cancellation was requested takes its next step and ends
Cancelled ==
    /\ Alive
    /\ \E t \in DOMAIN loop_tasks :
         /\ loop_tasks[t] = "cancelling"
         /\ loop_tasks' = Finished(loop_tasks, t)
    /\ UNCHANGED <<client_pc, session, should_exit, tasks, interrupt_lock,
                   channel, sigint>>
    /\ UNCHANGED offClient

\* task_cleanup, the done-callback _create_task adds, called by the loop
TaskCleanup ==
    /\ Alive
    /\ \E t \in DOMAIN loop_tasks :
         /\ loop_tasks[t] = "finished"
         /\ tasks' = tasks \ {t}
         /\ loop_tasks' = [loop_tasks EXCEPT ![t] = "cleaned"]
    /\ UNCHANGED <<client_pc, session, should_exit, interrupt_lock, channel,
                   sigint>>
    /\ UNCHANGED offClient

\* _main: should_exit.wait() returns
LeaveMain ==
    /\ client_pc = "main"
    /\ should_exit
    /\ client_pc' = "shutdown"
    /\ UNCHANGED <<session, should_exit, tasks, loop_tasks, interrupt_lock,
                   channel, sigint>>
    /\ UNCHANGED offClient

\* _shutdown: await self.session.stop(); a stopped session holds no lock
StopSession ==
    /\ client_pc = "shutdown"
    /\ session' = "stopped"
    /\ interrupt_lock' = FALSE
    /\ client_pc' = "stopped"
    /\ UNCHANGED <<should_exit, tasks, loop_tasks, channel, sigint>>
    /\ UNCHANGED offClient

\* _shutdown: for task in self._tasks: task.cancel(); _run returns
CancelTasks ==
    /\ client_pc = "stopped"
    /\ loop_tasks' = CancelAll(loop_tasks, tasks)
    /\ client_pc' = "done"
    /\ UNCHANGED <<session, should_exit, tasks, interrupt_lock, channel,
                   sigint>>
    /\ UNCHANGED offClient

NextClient ==
    \/ InstallHandlers
    \/ CreateSession
    \/ StartSession
    \/ HandleSigInt
    \/ ToggleLock
    \/ RefreshCompletions
    \/ InputQuit
    \/ ListenForExit
    \/ SendInterrupt
    \/ Cancelled
    \/ TaskCleanup
    \/ LeaveMain
    \/ StopSession
    \/ CancelTasks

SpecClient == InitClient /\ [][NextClient]_vars

\* _startup goes on to its end, the event loop runs _run whenever it can go
\* on, and session.stop() returns
SpecClientFair ==
    /\ SpecClient
    /\ WF_vars(StartSession)
    /\ WF_vars(LeaveMain)
    /\ WF_vars(StopSession)
    /\ WF_vars(CancelTasks)

\* ---------------------------------------------- decoding one header
OptLineNos == LineNos \cup {NoLine}

OptPaths == Paths \cup {None}

\* the headers: per action the keys it reads, `name` and `file` on every one
Headers ==
    {Malformed}
    \cup {Header(f, "insert", n, bl, al, NoLine, NoLine) :
            f \in OptPaths, n \in OptPaths, bl \in OptLineNos, al \in OptLineNos}
    \cup {Header(f, a, n, NoLine, NoLine, sl, el) :
            f \in OptPaths, n \in OptPaths, a \in {"replace", "delete"},
            sl \in OptLineNos, el \in OptLineNos}
    \cup {Header(f, a, n, NoLine, NoLine, NoLine, NoLine) :
            f \in OptPaths, n \in OptPaths,
            a \in {"create-file", "delete-file", "rename-file", "move", None}}

\* _BlockParserIndicator.Code and .End, the lines that close a header
Closings == {"@@code", "@@end"}

Snapshots == UNION {[S -> InitContents] : S \in SUBSET Paths}

RenameMaps == UNION {[S -> Paths] : S \in SUBSET Paths}

Undecoded ==
    [header |-> Malformed, closing |-> None, code |-> <<>>,
     result |-> Failed(None)]

InitHeader ==
    /\ EngineIdle
    /\ AppIdle
    /\ StreamIdle
    /\ file_lines \in Snapshots
    /\ rename_map \in RenameMaps
    /\ file_edits = <<>>
    /\ decoded = Undecoded

\* one call of _special_block
Decode ==
    /\ decoded = Undecoded
    /\ \E h \in Headers, closing \in Closings :
          decoded' = [header |-> h, closing |-> closing, code |-> <<>>,
                      result |-> special_block(file_lines, rename_map, h, closing)]
    /\ UNCHANGED <<file_lines, rename_map, file_edits>>
    /\ UNCHANGED engineVars
    /\ UNCHANGED appVars
    /\ UNCHANGED streamVars

SpecHeader == InitHeader /\ [][Decode]_vars

\* ------------------------------------------------- a parse session
\* the most blocks of one streamed response
MaxBlocks == 2

\* the headers of a session's blocks
SessionHeaders ==
    { Malformed,
      Header("a", "rename-file", "b", NoLine, NoLine, NoLine, NoLine),
      Header("b", "rename-file", "a", NoLine, NoLine, NoLine, NoLine),
      Header("a", "replace", None, NoLine, NoLine, 1, 2),
      Header("b", "replace", None, NoLine, NoLine, 1, 1),
      Header("a", "replace", None, NoLine, NoLine, 2, 2),
      Header("a", "replace", None, NoLine, NoLine, NoLine, 1),
      Header("a", "insert", None, 2, 1, NoLine, NoLine),
      Header("a", "insert", None, 2, 2, NoLine, NoLine),
      Header("a", "delete", None, NoLine, NoLine, 1, 1),
      Header("b", "create-file", None, NoLine, NoLine, NoLine, NoLine),
      Header("a", "delete-file", None, NoLine, NoLine, NoLine, NoLine) }

\* the code lines between the code marker and the end marker
SessionCode == {<<>>, <<"n">>, <<"n", "m">>}

InitSession ==
    /\ EngineIdle
    /\ AppIdle
    /\ StreamIdle
    /\ file_lines \in Snapshots
    /\ rename_map = <<>>
    /\ file_edits = <<>>
    /\ decoded = Undecoded

\* the alias table after a completed edit: a rename-file edit maps its path
\* to its new name
Aliased(rmap, r) ==
    IF r.file_action = "RenameFile" /\ r.file_edit.rename_file_path # None
    THEN [p \in DOMAIN rmap \cup {r.file_edit.file_path} |->
            IF p = r.file_edit.file_path THEN r.file_edit.rename_file_path
            ELSE rmap[p]]
    ELSE rmap

\* one block of the stream: its header is decoded when the header section
\* closes; a block that fails to decode is discarded; with has_code the code
\* section is added when it closes; the edit is then completed
Block ==
    /\ Len(file_edits) < MaxBlocks
    /\ \E h \in SessionHeaders, closing \in Closings :
       \E code \in IF closing = "@@code" THEN SessionCode ELSE {<<>>} :
          LET r == special_block(file_lines, rename_map, h, closing)
          IN  /\ decoded' = [header |-> h, closing |-> closing, code |-> code,
                             result |-> r]
              /\ file_edits' =
                    IF ~r.ok THEN file_edits
                    ELSE IF r.has_code
                         THEN Append(file_edits,
                                add_code_block(code \o <<"@@end", "">>, r))
                         ELSE Append(file_edits, r.file_edit)
              /\ rename_map' = IF r.ok THEN Aliased(rename_map, r) ELSE rename_map
    /\ UNCHANGED file_lines
    /\ UNCHANGED engineVars
    /\ UNCHANGED appVars
    /\ UNCHANGED streamVars

SpecSession == InitSession /\ [][Block]_vars

\* ---------------------------------------------- the streamed response
\* A text is a sequence of one-character strings; a line is the characters
\* between two newlines.
NL == "\n"

\* _BlockParserIndicator
StartMarker == <<"@", "@", "s", "t", "a", "r", "t">>

CodeMarker == <<"@", "@", "c", "o", "d", "e">>

EndMarker == <<"@", "@", "e", "n", "d">>

Indicators == {StartMarker, CodeMarker, EndMarker}

\* str.startswith
StartsWith(s, prefix) ==
    Len(prefix) <= Len(s) /\ SubSeq(s, 1, Len(prefix)) = prefix

\* a hook that buffers a line only once it is a whole marker
could_be_special_whole(cur_line) == cur_line \in Indicators

\* a hook that stops buffering a line once it is a whole marker
could_be_special_proper(cur_line) ==
    \E to_match \in Indicators :
        Len(cur_line) < Len(to_match) /\ StartsWith(to_match, cur_line)

\* BlockParser._could_be_special
could_be_special(cur_line) ==
    \E to_match \in Indicators : StartsWith(to_match, cur_line)

\* BlockParser._starts_special
starts_special(line) == line = StartMarker

\* _ends_special without line 87: only the end marker closes a header
ends_special_at_end_marker(line) == line = EndMarker

\* BlockParser._ends_special
ends_special(line) == line = CodeMarker \/ line = EndMarker

\* a variant of _ends_code that lets either closing marker end the code
ends_code_at_any_closing(line) == line = CodeMarker \/ line = EndMarker

\* BlockParser._ends_code
ends_code(line) == line = EndMarker

\* json.loads("\n".join(json_lines)) followed by the deserialization: the
\* JSON objects of the streamed texts are written as one letter each, R a
\* replace of lines 1-2 of a, D a delete of line 1 of a, N a rename of a to
\* b; any other header section is not a JSON object
JsonLoads(json_lines) ==
    IF json_lines = <<<<"R">>>>
    THEN Header("a", "replace", None, NoLine, NoLine, 1, 2)
    ELSE IF json_lines = <<<<"D">>>>
    THEN Header("a", "delete", None, NoLine, NoLine, 1, 1)
    ELSE IF json_lines = <<<<"N">>>>
    THEN Header("a", "rename-file", "b", NoLine, NoLine, NoLine, NoLine)
    ELSE Malformed

\* block[-1] of a header section closed by the line
ClosingOf(line) == IF line = CodeMarker THEN "@@code" ELSE "@@end"

\* the parser's whole state: the stream state with the session's edits and
\* alias table
Parsing(st, edits, rmap) ==
    [f \in DOMAIN st \cup {"file_edits", "rename_map"} |->
        IF f = "file_edits" THEN edits
        ELSE IF f = "rename_map" THEN rmap
        ELSE st[f]]

\* the edit of a block is completed: it joins the session's list, a rename
\* joins the alias table, and the parser is back in Prose
Completed(ps, edit, r) ==
    [ps EXCEPT !.mode = "Prose", !.block = <<>>, !.code = <<>>,
               !.result = r,
               !.file_edits = Append(@, edit),
               !.rename_map = Aliased(@, r)]

\* the part of the line in progress that has not been shown goes to the prose
Emit(ps, ending) ==
    [ps EXCEPT !.prose =
        @ \o SubSeq(ps.cur_line, ps.shown + 1, Len(ps.cur_line)) \o ending,
               !.shown = Len(ps.cur_line)]

\* a newline arrives: the line in progress is complete
EndOfLine(snapshot, ps) ==
    LET line == ps.cur_line
        next(q) == [q EXCEPT !.cur_line = <<>>, !.shown = 0]
    IN  IF ps.mode = "Prose"
        THEN IF starts_special(line)
             THEN [next(ps) EXCEPT !.mode = "Header", !.block = <<line>>,
                                   !.edits_at_start = Len(ps.file_edits)]
             ELSE next(Emit(ps, <<NL>>))
        ELSE IF ps.mode = "Header"
        THEN IF ends_special(line)
             THEN LET r == special_block(snapshot, ps.rename_map,
                                         JsonLoads(Tail(ps.block)),
                                         ClosingOf(line))
                  IN  IF ~r.ok
                      THEN [next(ps) EXCEPT !.mode = "Prose", !.block = <<>>,
                                            !.result = r]
                      ELSE IF r.has_code
                      THEN [next(ps) EXCEPT !.mode = "Code", !.block = <<>>,
                                            !.code = <<>>, !.result = r]
                      ELSE Completed(next(ps), r.file_edit, r)
             ELSE [next(ps) EXCEPT !.block = Append(@, line)]
        ELSE IF ends_code(line)
             THEN Completed(next(ps),
                            add_code_block(ps.code \o <<line, <<>>>>,
                                           ps.result),
                            ps.result)
             ELSE [next(ps) EXCEPT !.code = Append(@, line)]

\* the place of the first newline of the fragment, 0 without one
FirstNewline(frag) ==
    LET at == {i \in 1..Len(frag) : frag[i] = NL}
    IN  IF at = {} THEN 0 ELSE CHOOSE i \in at : \A j \in at : i <= j

\* the characters of a fragment: they join the line in progress up to each
\* newline, which completes the line
RECURSIVE FeedChars(_, _, _)
FeedChars(snapshot, ps, frag) ==
    LET n == FirstNewline(frag)
    IN  IF n = 0 THEN [ps EXCEPT !.cur_line = @ \o frag]
        ELSE FeedChars(snapshot,
                       EndOfLine(snapshot,
                                 [ps EXCEPT !.cur_line =
                                                @ \o SubSeq(frag, 1, n - 1)]),
                       SubSeq(frag, n + 1, Len(frag)))

\* the fragment is used up: in Prose a line in progress that can no longer
\* grow into a marker is shown, one that still can is held back
FragmentEnd(ps) ==
    IF ps.mode = "Prose" /\ ~could_be_special(ps.cur_line)
    THEN Emit(ps, <<>>)
    ELSE [ps EXCEPT !.held_back =
                       @ \/ (ps.mode = "Prose" /\ ps.cur_line # <<>>)]

\* one fragment of the response
FeedFragment(snapshot, ps, frag) ==
    FragmentEnd(FeedChars(snapshot, ps, frag))

\* the most segments of one streamed text
MaxSegments == 2

RECURSIVE Concat(_)
Concat(ss) == IF ss = <<>> THEN <<>> ELSE Head(ss) \o Concat(Tail(ss))

TextLine(chars) == chars \o <<NL>>

\* what the streamed texts are made of: prose lines, lines that begin like a
\* marker, blocks with and without code, a block whose header is not JSON, a
\* stray end marker, a block cut short, and lines left unfinished
Segments ==
    { TextLine(<<"x">>),
      TextLine(<<"@", "@", "x">>),
      Concat(<<TextLine(StartMarker), TextLine(<<"D">>), TextLine(EndMarker)>>),
      Concat(<<TextLine(StartMarker), TextLine(<<"R">>), TextLine(CodeMarker),
               TextLine(<<"x">>), TextLine(EndMarker)>>),
      Concat(<<TextLine(StartMarker), TextLine(<<"N">>), TextLine(EndMarker)>>),
      Concat(<<TextLine(StartMarker), TextLine(<<"x">>), TextLine(EndMarker)>>),
      TextLine(EndMarker),
      Concat(<<TextLine(StartMarker), TextLine(<<"R">>)>>),
      Concat(<<TextLine(StartMarker), TextLine(<<"R">>), TextLine(CodeMarker),
               TextLine(<<"x">>)>>),
      <<"@", "@">>,
      <<"x">> }

Texts == {Concat(ss) : ss \in SeqsUpTo(Segments, MaxSegments)}

InitStream ==
    /\ EngineIdle
    /\ AppIdle
    /\ file_lines = [p \in Paths |-> <<"x", "y">>]
    /\ rename_map = <<>>
    /\ file_edits = <<>>
    /\ decoded = Undecoded
    /\ text \in Texts
    /\ pos = 0
    /\ stream = NoStream

\* the next fragment of the response arrives: any number of the characters
\* not yet received
Feed ==
    /\ \E k \in 1..(Len(text) - pos) :
          \E ps \in {FeedFragment(file_lines,
                                   Parsing(stream, file_edits, rename_map),
                                   SubSeq(text, pos + 1, pos + k))} :
              /\ pos' = pos + k
              /\ stream' = [f \in DOMAIN stream |-> ps[f]]
              /\ file_edits' = ps.file_edits
              /\ rename_map' = ps.rename_map
    /\ UNCHANGED <<text, file_lines, decoded>>
    /\ UNCHANGED engineVars
    /\ UNCHANGED appVars

\* the response is complete: ending in Prose is the normal end, ending
\* inside a block is a truncation and the block in progress is dropped
Close ==
    /\ pos = Len(text)
    /\ stream.outcome = "open"
    /\ stream' = [stream EXCEPT
                    !.outcome = IF stream.mode = "Prose" THEN "done"
                                ELSE "truncated",
                    !.block = <<>>, !.code = <<>>]
    /\ UNCHANGED <<text, pos, file_lines, decoded, file_edits, rename_map>>
    /\ UNCHANGED engineVars
    /\ UNCHANGED appVars

NextStream == Feed \/ Close

SpecStream == InitStream /\ [][NextStream]_vars

\* ------------------------------------------------ the engine's inputs
\* the replacement lists the batches are drawn from: none, an insertion at
\* the top, a deletion of the first line, a replacement of the second line,
\* two disjoint replacements, two overlapping ones
EngineReplacements ==
    { <<>>,
      <<Replacement(0, 0, <<"y">>)>>,
      <<Replacement(0, 1, <<>>)>>,
      <<Replacement(0, 1, <<"y">>), Replacement(1, 2, <<"x">>)>>,
      <<Replacement(0, 1, <<"x">>), Replacement(0, 1, <<"y">>)>> }

FileEdits ==
    [file_path : Paths, replacements : EngineReplacements,
     is_creation : BOOLEAN, is_deletion : BOOLEAN,
     rename_file_path : Paths \cup {None}]

NoStep == [edit |-> NoFileEdit, log |-> <<>>, st |-> "none"]

\* the answers the user may give to a confirmation; one that the edit
\* cannot request is never read
Answers(asked) == IF asked THEN BOOLEAN ELSE {FALSE}

\* read_all_file_lines: the snapshot of every tracked file
read_all_file_lines(d, fs) == [p \in fs |-> read_file(d, p)]

\* ------------------------------------------------------------- engine
\* the state after read_all_file_lines, before write_changes_to_files
InitEngine ==
    /\ disk \in UNION {[S -> InitContents] : S \in SUBSET Paths}
    /\ files \in SUBSET (DOMAIN disk)
    /\ file_lines = read_all_file_lines(disk, files)
    /\ pc = "running"
    /\ error = None
    /\ idx = 0
    /\ last = NoStep
    /\ history = NoHistory
    /\ ParserIdle
    /\ AppIdle

\* another process rewrites an existing file (between snapshot and batch,
\* or while the batch is suspended between two edits)
ExternalWrite ==
    /\ pc = "running"
    /\ \E p \in DOMAIN disk, c \in ExternalContents :
          /\ disk[p] # c
          /\ disk' = WriteFile(disk, p, c)
    /\ last' = NoStep
    /\ UNCHANGED <<files, file_lines, pc, error, idx, history>>
    /\ UNCHANGED parserVars
    /\ UNCHANGED appVars
    /\ UNCHANGED streamVars

\* the loop body of write_changes_to_files for the next FileEdit of the
\* list, a FileEdit of Edits
EditStepOver(Edits) ==
    /\ pc = "running"
    /\ idx < MaxEdits
    /\ idx' = idx + 1
    /\ \E e \in Edits :
       \E delAns \in Answers(e.is_deletion), confAns \in Answers(~e.is_creation),
          sorted \in SortedDescending(e.replacements) :
          LET f == ProcessFileEdit(disk, files, file_lines, e, sorted,
                                   delAns, confAns)
          IN  /\ disk' = f.disk
              /\ files' = f.files
              /\ error' = f.err
              /\ pc' = IF f.st = "raise" THEN "error" ELSE "running"
              /\ last' = [edit |-> e, log |-> f.log, st |-> f.st]
              /\ history' = Recorded(history, f.log)
    /\ UNCHANGED file_lines
    /\ UNCHANGED parserVars
    /\ UNCHANGED appVars
    /\ UNCHANGED streamVars

EditStep == EditStepOver(FileEdits)

\* the list of FileEdits is exhausted
Finish ==
    /\ pc = "running"
    /\ pc' = "done"
    /\ UNCHANGED <<disk, files, file_lines, error, idx, last, history>>
    /\ UNCHANGED parserVars
    /\ UNCHANGED appVars
    /\ UNCHANGED streamVars

NextEngine == ExternalWrite \/ EditStep \/ Finish

Spec == InitEngine /\ [][NextEngine]_vars

\* a batch during which nothing but the engine writes to the filesystem
NextBatch == EditStep \/ Finish

SpecBatch == InitEngine /\ [][NextBatch]_vars

\* ------------------------------------------- the content an edit writes
\* One tracked, unmodified file "a" and a batch of one FileEdit on it that
\* holds up to two replacements with line numbers up to MaxLines.
NewLineLists == {<<>>, <<"n">>, <<"m">>, <<"n", "m">>}

ContentReplacements ==
    {r \in [start : 0..MaxLines, end : 0..MaxLines, new_lines : NewLineLists] :
        r.start <= r.end}

ContentReplacementLists ==
    {<<>>} \cup {<<r>> : r \in ContentReplacements}
           \cup {<<r1, r2>> : r1 \in ContentReplacements, r2 \in ContentReplacements}

ContentEdits ==
    [file_path : {"a"}, replacements : ContentReplacementLists,
     is_creation : {FALSE}, is_deletion : {FALSE}, rename_file_path : {None}]

\* the files of up to MaxLines lines
ContentFiles == SeqsUpTo(Lines, MaxLines) \ {<<>>}

InitContent ==
    /\ disk \in {[p \in {"a"} |-> L] : L \in ContentFiles}
    /\ files = {"a"}
    /\ file_lines = read_all_file_lines(disk, files)
    /\ pc = "running"
    /\ error = None
    /\ idx = 0
    /\ last = NoStep
    /\ history = NoHistory
    /\ ParserIdle
    /\ AppIdle

\* the only FileEdit of the batch
ContentStep == idx = 0 /\ EditStepOver(ContentEdits)

NextContent == ContentStep \/ Finish

SpecContent == InitContent /\ [][NextContent]_vars

\* ================================================================ claims
\* the batch-fatal errors of write_changes_to_files
StateErrors ==
    {"create existing file", "edit non-existent file",
     "edit file not in context", "rename to existing file"}

\* the paths the filesystem operations of a log name
Touched(log) == {log[i].arg : i \in {j \in 1..Len(log) : log[j].ev # "ask"}}

\* path p is the same on disk and in the tracked set before and after a step
SamePath(p) ==
    /\ Exists(disk, p) <=> Exists(disk', p)
    /\ Exists(disk, p) => disk'[p] = disk[p]
    /\ p \in files <=> p \in files'

\* the step is one loop iteration (recorded in last')
IsEditStep == idx' = idx + 1

\* C1: when the conflict confirmation of a non-creation edit is declined,
\* the file still has, after the edit, the content it had before it: the
\* edit writes nothing to it.
C1_DeclinedConflictKeepsFile ==
    [][(IsEditStep /\ \E i \in 1..Len(last'.log) :
                          last'.log[i] = Asked("conflict", FALSE))
          => SamePath(last'.edit.file_path)]_vars

\* C2: when the deletion confirmation is declined, nothing more is done for
\* that edit: the declined confirmation is the last entry of the edit's log
\* (no conflict confirmation, no rename, no write) and the loop goes on with
\* the next edit.
C2_DeclinedDeletionEndsEdit ==
    \A i \in 1..Len(last.log) :
        last.log[i] = Asked("delete", FALSE)
            => i = Len(last.log) /\ last.st = "continue"

\* C3: once a batch-fatal error is raised nothing more happens (no later
\* FileEdit is taken, no confirmation, no change of the filesystem or of the
\* tracked set), and at the moment it is raised every path the failing edit
\* itself did not touch is as the earlier edits left it.
C3_ErrorEndsBatch ==
    [][/\ error \in StateErrors => UNCHANGED <<disk, files, idx, last>>
       /\ (error = None /\ error' \in StateErrors)
             => \A p \in Paths \ Touched(last'.log) : SamePath(p)]_vars

\* C3 witness: the second edit of a batch raised a batch-fatal error and the
\* file the first edit added is still there and still tracked
C3_Witness ==
    /\ error \in StateErrors
    /\ idx = 2
    /\ \E p \in files : p \notin DOMAIN file_lines /\ Exists(disk, p)

\* C4: a non-creation edit whose path is missing on disk or is not tracked
\* raises a batch-fatal error before any confirmation and before any
\* filesystem change.
C4_MissingOrUntrackedRaisesFirst ==
    [][(/\ IsEditStep
        /\ ~last'.edit.is_creation
        /\ \/ ~Exists(disk, last'.edit.file_path)
           \/ last'.edit.file_path \notin files)
          => /\ last'.st = "raise"
             /\ error' \in {"edit non-existent file", "edit file not in context"}
             /\ last'.log = <<>>
             /\ disk' = disk /\ files' = files]_vars

\* C4 witness: a deletion edit with a rename target on an existing but
\* untracked file was refused without any confirmation
C4_Witness ==
    /\ error = "edit file not in context"
    /\ last.edit.is_deletion /\ last.edit.rename_file_path # None
    /\ Exists(disk, last.edit.file_path)
    /\ last.log = <<>>

\* C5: an edit of an existing file whose replacements overlap is rejected
\* before any write: the file of the edit is on disk, after the edit, as it
\* was before it.
C5_OverlapLeavesFile ==
    [][(/\ IsEditStep
        /\ ~last'.edit.is_creation
        /\ HasOverlap(last'.edit.replacements)
        /\ error' = "overlapping replacements")
          => SamePath(last'.edit.file_path)]_vars

\* L[:start] + new_lines + L[end:] for 0 <= start <= end <= Len(L)
Spliced(L, r) ==
    SubSeq(L, 1, r.start) \o r.new_lines \o SubSeq(L, r.end + 1, Len(L))

InRange(L, r) == 0 <= r.start /\ r.start <= r.end /\ r.end <= Len(L)

\* C8: the content written for a FileEdit holding the single replacement
\* (start, end, new_lines), 0 <= start <= end <= len(L), on the snapshot L is
\* L[:start] + new_lines + L[end:]; with start = end every line of L is kept.
C8_SingleReplacementContent ==
    (/\ last.st = "continue"
     /\ Len(last.edit.replacements) = 1
     /\ InRange(file_lines["a"], last.edit.replacements[1]))
      => LET L == file_lines["a"]
             r == last.edit.replacements[1]
         IN  /\ disk["a"] = JoinSplit(Spliced(L, r))
             /\ r.start = r.end
                  => /\ Len(disk["a"]) = Len(L) + Len(r.new_lines)
                     /\ \A i \in 1..Len(L) :
                           disk["a"][IF i <= r.start THEN i
                                     ELSE i + Len(r.new_lines)] = L[i]

\* C8 witness: a replacement that removes a line and inserts two was written
C8_Witness ==
    /\ last.st = "continue"
    /\ last.edit.replacements = <<Replacement(1, 2, <<"n", "m">>)>>
    /\ file_lines["a"] = <<"x", "y", "x">>
    /\ disk["a"] = <<"x", "n", "m", "x">>

\* two replacements applied in ascending order of start, the second one
\* shifted by the number of lines the first one added or removed
AscendingWithOffset(L, rs) ==
    LET lo == IF rs[1].start <= rs[2].start THEN rs[1] ELSE rs[2]
        hi == IF rs[1].start <= rs[2].start THEN rs[2] ELSE rs[1]
        offset == Len(lo.new_lines) - (lo.end - lo.start)
    IN  Spliced(Spliced(L, lo),
                Replacement(hi.start + offset, hi.end + offset, hi.new_lines))

TwoDisjointWritten ==
    /\ last.st = "continue"
    /\ Len(last.edit.replacements) = 2
    /\ InRange(file_lines["a"], last.edit.replacements[1])
    /\ InRange(file_lines["a"], last.edit.replacements[2])
    /\ ~Overlap(last.edit.replacements[1], last.edit.replacements[2])

\* C9 as stated: for any two non-overlapping replacements the content written
\* (descending order of start, original line numbers) is the content that
\* applying them in ascending order of start with offset tracking gives.
C9_DescendingEqualsAscending ==
    TwoDisjointWritten
      => disk["a"] = JoinSplit(AscendingWithOffset(file_lines["a"],
                                                   last.edit.replacements))

\* C9 amended: the same for two non-overlapping replacements that start at
\* different lines; the content then depends on the two replacements only,
\* not on their order in the FileEdit.
C9_DescendingEqualsAscendingDistinctStarts ==
    (/\ TwoDisjointWritten
     /\ last.edit.replacements[1].start # last.edit.replacements[2].start)
      => /\ disk["a"] = JoinSplit(AscendingWithOffset(file_lines["a"],
                                                      last.edit.replacements))
         /\ disk["a"] = JoinSplit(AscendingWithOffset(file_lines["a"],
                             <<last.edit.replacements[2],
                               last.edit.replacements[1]>>))

\* C9 witness: the lower replacement is listed first and changes the number
\* of lines above the upper one
C9_Witness ==
    /\ TwoDisjointWritten
    /\ last.edit.replacements =
          <<Replacement(0, 1, <<"n", "m">>), Replacement(2, 3, <<>>)>>
    /\ file_lines["a"] = <<"x", "y", "x">>
    /\ disk["a"] = <<"n", "m", "y">>

\* the header's `file` is present and the path the alias table gives for it
\* has a snapshot, as lines 140-149 and 165 need
FileResolves ==
    /\ decoded.header.file # None
    /\ Resolve(rename_map, decoded.header.file) \in DOMAIN file_lines

RangeIs(n) ==
    /\ decoded.result.ok
    /\ decoded.result.first_changed_line = n
    /\ decoded.result.last_changed_line = n

\* C10: decoding an insert header: with only insert-before-line = b the range
\* is start = end = b - 1; with only insert-after-line = a it is
\* start = end = a; with both it succeeds, with start = end = b - 1, exactly
\* when a = b - 1 and raises otherwise; with neither it raises.
C10_InsertRange ==
    (decoded.closing # None /\ decoded.header.action = "insert")
      => LET b == decoded.header.before_line
             a == decoded.header.after_line
         IN  /\ (b # NoLine /\ a = NoLine /\ FileResolves) => RangeIs(b - 1)
             /\ (b = NoLine /\ a # NoLine /\ FileResolves) => RangeIs(a)
             /\ (b # NoLine /\ a # NoLine /\ FileResolves)
                   => (decoded.result.ok <=> a = b - 1)
             /\ (b # NoLine /\ a # NoLine /\ a = b - 1 /\ FileResolves)
                   => RangeIs(b - 1)
             /\ (b # NoLine /\ a # NoLine /\ a # b - 1)
                   => ~decoded.result.ok /\ decoded.result.err = "ValueError"
             /\ (b = NoLine /\ a = NoLine)
                   => ~decoded.result.ok /\ decoded.result.err = "ValueError"
             /\ decoded.result.ok
                   => decoded.result.first_changed_line
                        = decoded.result.last_changed_line

\* C10 witness: a header with insert-before-line 2 and insert-after-line 1
\* was decoded to the range start = end = 1
C10_Witness ==
    /\ decoded.header.action = "insert"
    /\ decoded.header.before_line = 2 /\ decoded.header.after_line = 1
    /\ RangeIs(1)

\* a rename-file block renaming old to new was completed earlier in the
\* session and the last block, addressed to old, was decoded
DecodedAfterRename(old, new) ==
    /\ \E i \in 1..Len(file_edits) :
          /\ file_edits[i].file_path = old
          /\ file_edits[i].rename_file_path = new
          /\ i < Len(file_edits) \/ ~decoded.result.ok
    /\ old \in DOMAIN rename_map /\ rename_map[old] = new
    /\ decoded.header.file = old
    /\ decoded.header.action # "rename-file"

OneFragment ==
    FeedFragment(file_lines, Parsing(NoStream, <<>>, <<>>), text)

\* C7: once the whole text has been received, the prose shown and the list
\* of completed FileEdits are those of the same text received as a single
\* fragment, however the text was split into fragments
C7_FragmentationIndependent ==
    pos = Len(text) =>
        /\ stream.prose = OneFragment.prose
        /\ file_edits = OneFragment.file_edits

\* a text with prose and a completed edit was received whole, in fragments
\* one of which ended inside a line that could still grow into a marker
C7_Witness ==
    /\ pos = Len(text)
    /\ stream.held_back
    /\ stream.cur_line = <<>>
    /\ stream.prose # <<>>
    /\ Len(file_edits) >= 1
    /\ \E i \in 1..Len(file_edits) : file_edits[i].replacements # <<>>

\* the last decoded header is a replace or delete (given by action) with both
\* start-line and end-line present, on a file that has a snapshot
DecodedRange(action) ==
    /\ decoded.closing # None
    /\ decoded.header.action = action
    /\ decoded.header.start_line # NoLine
    /\ decoded.header.end_line # NoLine
    /\ FileResolves

\* C11: decoding a replace or delete header with start-line = s and
\* end-line = e gives the range start = s - 1, end = e; the FileEdit returned
\* for delete holds exactly the one Replacement(s - 1, e, []), the FileEdit
\* returned for replace holds no replacement
C11_ReplaceDeleteRange ==
    LET s == decoded.header.start_line
        e == decoded.header.end_line
        r == decoded.result
    IN  /\ DecodedRange("delete")
            => /\ r.ok
               /\ r.first_changed_line = s - 1
               /\ r.last_changed_line = e
               /\ r.file_edit.replacements = <<Replacement(s - 1, e, <<>>)>>
        /\ DecodedRange("replace")
            => /\ r.ok
               /\ r.first_changed_line = s - 1
               /\ r.last_changed_line = e
               /\ r.file_edit.replacements = <<>>

\* C11 witness: a delete header with start-line 1 and end-line 2 was decoded
\* to a FileEdit holding Replacement(0, 2, [])
C11_Witness ==
    /\ DecodedRange("delete")
    /\ decoded.header.start_line = 1 /\ decoded.header.end_line = 2
    /\ decoded.result.ok
    /\ decoded.result.file_edit.replacements = <<Replacement(0, 2, <<>>)>>

\* the last block of the session had a code section and was completed
CodeBlockCompleted ==
    /\ decoded.closing = "@@code"
    /\ decoded.result.ok
    /\ Len(file_edits) >= 1

\* C12: when a code section closes, the completed FileEdit is the one the
\* header decoded to with exactly one Replacement appended: its range is the
\* range resolved from the header and its new_lines are the code lines, in
\* order, without the markers and without an extra empty line; a replace of
\* lines s..e of the snapshot L then gives L[:s-1] + code lines + L[e:]
C12_CodeBlockAppendsOneReplacement ==
    CodeBlockCompleted
      => LET r == decoded.result
             edit == file_edits[Len(file_edits)]
             added == Replacement(r.first_changed_line, r.last_changed_line,
                                  decoded.code)
         IN  /\ edit = [r.file_edit EXCEPT
                          !.replacements = Append(@, added)]
             /\ Len(edit.replacements) = Len(r.file_edit.replacements) + 1
             /\ (/\ decoded.header.action = "replace"
                 /\ InRange(file_lines[r.snapshot_of], added))
                  => LET L == file_lines[r.snapshot_of]
                         new == get_updated_file_lines(edit.replacements, L)
                     IN  /\ new.ok
                         /\ new.lines =
                              SubSeq(L, 1, decoded.header.start_line - 1)
                                \o decoded.code
                                \o SubSeq(L, decoded.header.end_line + 1, Len(L))

\* C12 witness: a replace of lines 1-2 with the code lines n, m was completed
C12_Witness ==
    /\ CodeBlockCompleted
    /\ decoded.header.action = "replace"
    /\ decoded.code = <<"n", "m">>
    /\ file_edits[Len(file_edits)].replacements
         = <<Replacement(0, 2, <<"n", "m">>)>>

\* the step is the loop iteration of an edit whose rename target exists
RenamesOntoExisting ==
    /\ IsEditStep
    /\ last'.edit.rename_file_path # None
    /\ Exists(disk, last'.edit.rename_file_path)

\* the edit of the step asked for the deletion confirmation and got a yes
DeletionAccepted ==
    \E i \in 1..Len(last'.log) : last'.log[i] = Asked("delete", TRUE)

ConflictAsked ==
    \E i \in 1..Len(last'.log) : last'.log[i].arg = "conflict"

\* the step completed a rename edit: not a creation, not deleted, the
\* destination absent before it, no conflict found
RenameProcessed ==
    /\ IsEditStep
    /\ last'.st = "continue"
    /\ last'.edit.rename_file_path # None
    /\ ~last'.edit.is_creation
    /\ ~DeletionAccepted
    /\ ~ConflictAsked
    /\ ~Exists(disk, last'.edit.rename_file_path)

\* C14: after a rename edit (not a creation, not deleted, destination
\* absent, no conflict) is processed, the source is neither on disk nor
\* tracked, the destination is on disk and tracked, and the destination
\* holds the source's snapshot with the edit's replacements applied (the
\* snapshot itself when the edit has no replacements)
C14_RenameMovesContent ==
    [][RenameProcessed
          => LET src == last'.edit.file_path
                 dst == last'.edit.rename_file_path
             IN  /\ ~Exists(disk', src) /\ src \notin files'
                 /\ Exists(disk', dst) /\ dst \in files'
                 /\ \E sorted \in SortedDescending(last'.edit.replacements) :
                       LET new == get_updated_file_lines(sorted, file_lines[src])
                       IN  new.ok /\ disk'[dst] = JoinSplit(new.lines)
                 /\ last'.edit.replacements = <<>>
                       => disk'[dst] = file_lines[src]]_vars

\* C14 witness: a renamed file was written with a changed first line
C14_Witness ==
    /\ last.st = "continue"
    /\ last.edit.rename_file_path # None
    /\ ~last.edit.is_creation /\ ~last.edit.is_deletion
    /\ last.edit.replacements
         = <<Replacement(0, 1, <<"y">>), Replacement(1, 2, <<"x">>)>>
    /\ last.log = <<Did("add", last.edit.rename_file_path),
                    Did("unlink", last.edit.file_path),
                    Did("write", last.edit.rename_file_path)>>
    /\ ~Exists(disk, last.edit.file_path)
    /\ disk[last.edit.rename_file_path] = <<"y", "x">>

\* C15: when the deletion confirmation of an edit is accepted, the path is
\* removed from disk and from the tracked set; the unlink is the last thing
\* the edit does (no conflict confirmation, no rename, no write), so the
\* path does not exist after the edit and every other path, a rename target
\* included, is as it was; the loop goes on with the next edit
C15_AcceptedDeletionRemovesPath ==
    [][(IsEditStep /\ DeletionAccepted)
          => LET p == last'.edit.file_path
                 n == Len(last'.log)
             IN  /\ ~Exists(disk', p) /\ p \notin files'
                 /\ last'.log[n - 1] = Asked("delete", TRUE)
                 /\ last'.log[n] = Did("unlink", p)
                 /\ \A i \in 1..n :
                       /\ last'.log[i].arg # "conflict"
                       /\ last'.log[i].ev # "write"
                 /\ \A q \in Paths \ {p} : SamePath(q)
                 /\ last'.st = "continue" /\ error' = None
                 /\ pc' = "running"]_vars

\* C15 witness: an accepted deletion of an edit that also carried
\* replacements and a rename target removed the file as the first edit of a
\* batch, and the rename target is not there
C15_Witness ==
    /\ last.log = <<Asked("delete", TRUE), Did("unlink", last.edit.file_path)>>
    /\ last.edit.replacements # <<>>
    /\ last.edit.rename_file_path # None
    /\ ~Exists(disk, last.edit.rename_file_path)
    /\ ~Exists(disk, last.edit.file_path)
    /\ pc = "running" /\ idx = 1

\* the edit of the step asked for the deletion confirmation and got a no
DeletionDeclined ==
    \E i \in 1..Len(last'.log) : last'.log[i] = Asked("delete", FALSE)

\* C16: when the deletion confirmation of an edit of an existing file is
\* declined, the file of the edit is still on disk and still tracked after
\* the edit, and the batch goes on: the declined edit raises nothing, so the
\* edits after it are still taken (stated for edits whose replacements do
\* not overlap)
C16_DeclinedDeletionKeepsFile ==
    [][(/\ IsEditStep /\ DeletionDeclined
        /\ ~last'.edit.is_creation
        /\ ~HasOverlap(last'.edit.replacements))
          => /\ Exists(disk', last'.edit.file_path)
             /\ last'.edit.file_path \in files'
             /\ last'.st = "continue"
             /\ pc' = "running"]_vars

\* the step is the loop iteration of a creation edit whose replacements do
\* not overlap
CreationStep ==
    /\ IsEditStep
    /\ last'.edit.is_creation
    /\ ~HasOverlap(last'.edit.replacements)

\* the creation edit of the step was refused and nothing was changed
CreationRefused ==
    /\ last'.st = "raise"
    /\ error' = "create existing file"
    /\ last'.log = <<>>
    /\ disk' = disk /\ files' = files

\* the creation edit of the step left its path on disk, tracked, holding its
\* replacements applied to the empty snapshot, and asked for no conflict
\* confirmation
CreationDone ==
    LET p == last'.edit.file_path
    IN  /\ last'.st = "continue" /\ error' = None
        /\ Exists(disk', p) /\ p \in files'
        /\ \E sorted \in SortedDescending(last'.edit.replacements) :
              disk'[p] = JoinSplit(get_updated_file_lines(sorted, <<>>).lines)
        /\ ~ConflictAsked

Undecodable(h) ==
    \/ ~h.parsed
    \/ h.action = None
    \/ h.file = None
    \/ /\ h.action = "insert"
       /\ \/ h.before_line = NoLine /\ h.after_line = NoLine
          \/ /\ h.before_line # NoLine /\ h.after_line # NoLine
             /\ h.after_line # h.before_line - 1
    \/ h.action \in {"replace", "delete"} /\ h.start_line = NoLine

MissingRequired(h) ==
    /\ h.parsed
    /\ \/ h.action = None
       \/ h.file = None
       \/ /\ h.action \in {"replace", "delete"}
          /\ h.start_line = NoLine \/ h.end_line = NoLine

\* C19: decoding a header in which a field required by its action is absent
\* (action, file, or the start-line or end-line of a replace or delete)
\* raises an error and returns no FileEdit
C19_MissingFieldFails ==
    (decoded.closing # None /\ MissingRequired(decoded.header))
        => ~decoded.result.ok

\* the stream ends with this step
Closes == stream.outcome = "open" /\ stream'.outcome # "open"

\* the block in progress has not had its closing line: it began with the
\* start marker, no later header line is the code or end marker, no code
\* line is the end marker, and the code section follows a header that
\* decoded with has_code
BlockStillOpen ==
    /\ stream.mode = "Header"
         => /\ stream.block # <<>>
            /\ stream.block[1] = StartMarker
            /\ \A i \in 2..Len(stream.block) :
                  stream.block[i] \notin {CodeMarker, EndMarker}
    /\ stream.mode = "Code"
         => /\ stream.result.ok /\ stream.result.has_code
            /\ \A i \in 1..Len(stream.code) : stream.code[i] # EndMarker

\* C20: a stream that ends while the parser is in Header or Code mode ends
\* in a truncation failure, a stream that ends in Prose mode ends normally,
\* and nothing else ends a parse; the block in progress at a truncation has
\* not had its closing line and yields no FileEdit, neither before the end
\* of the stream (the list of completed edits is as it was when the block
\* began) nor at it, and nothing is completed after the end
C20_TruncationFailure ==
    [][/\ Closes
          => /\ pos = Len(text)
             /\ stream'.outcome = "truncated"
                   <=> stream.mode \in {"Header", "Code"}
             /\ stream'.outcome = "done" <=> stream.mode = "Prose"
             /\ file_edits' = file_edits
       /\ (stream.outcome = "open" /\ stream.mode \in {"Header", "Code"})
          => /\ Len(file_edits) = stream.edits_at_start
             /\ BlockStillOpen
       /\ stream.outcome # "open" => file_edits' = file_edits]_vars

\* C20 witness: a stream whose first block was completed ended inside the
\* code section of its second block, in a truncation failure
C20_Witness ==
    /\ stream.outcome = "truncated"
    /\ stream.mode = "Code"
    /\ Len(file_edits) = 1
    /\ pos = Len(text)

\* the replacements the last decoded block places in its FileEdit: the one
\* synthesized for a delete and, with has_code, the one the code accumulator
\* appends
PlacedReplacements ==
    LET r == decoded.result
    IN  IF r.has_code
        THEN add_code_block(<<"@@end", "">>, r).replacements
        ELSE r.file_edit.replacements

\* C21: every Replacement the block dialect places in the FileEdit of a
\* header it accepts has 0 <= start <= end (stated for headers whose
\* end-line, if they are a replace or delete, is present)
C21_ReplacementRangeOrdered ==
    (/\ decoded.closing # None
     /\ decoded.result.ok
     /\ decoded.header.action \in {"replace", "delete"}
          => decoded.header.end_line # NoLine)
      => \A i \in 1..Len(PlacedReplacements) :
            /\ 0 <= PlacedReplacements[i].start
            /\ PlacedReplacements[i].start <= PlacedReplacements[i].end

\* C22: a _get_key call returns the project config's value when the project
\* config holds the key, else the user config's, else the default config's,
\* and raises ValueError when no layer holds the key
C22_GetKeyPriority ==
    lookup.key # None =>
        LET key == lookup.key
            in_project == key \in DOMAIN project_config
            in_user == key \in DOMAIN user_config
            in_default == key \in DOMAIN default_config
        IN  /\ in_project => lookup.value = project_config[key]
            /\ (~in_project /\ in_user) => lookup.value = user_config[key]
            /\ (~in_project /\ ~in_user /\ in_default)
                  => lookup.value = default_config[key]
            /\ (~in_project /\ ~in_user /\ ~in_default)
                  => lookup.value = "ValueError"

\* a key held by all three layers was looked up, and one held by none
C22_Witness ==
    /\ lookup.key # None
    /\ lookup.key \in DOMAIN project_config
    /\ lookup.key \in DOMAIN user_config
    /\ lookup.key \in DOMAIN default_config
    /\ lookup.value = "project"
    /\ \E k \in ConfigKeys :
         /\ k \notin DOMAIN project_config
         /\ k \notin DOMAIN user_config
         /\ k \notin DOMAIN default_config

\* the layer `layer` came out of the constructor empty and with its warning
TreatedAsEmpty(layer, config) ==
    /\ config = <<>>
    /\ \E i \in 1..Len(warnings) : warnings[i] = InvalidJsonWarning(layer)

\* C23: when the user or the project config file exists and is not JSON, the
\* constructor returns normally, the layer is the empty dict, a warning was
\* sent, and a lookup gives what the remaining layers give
C23_InvalidJsonLayerIgnored ==
    config_pc # "new" =>
        /\ config_pc = "constructed"
        /\ config_files["user"] = InvalidJson
             => /\ TreatedAsEmpty("user", user_config)
                /\ lookup.key # None
                     => lookup.value =
                          IF lookup.key \in DOMAIN project_config
                          THEN project_config[lookup.key]
                          ELSE IF lookup.key \in DOMAIN default_config
                          THEN default_config[lookup.key]
                          ELSE "ValueError"
        /\ config_files["project"] = InvalidJson
             => /\ TreatedAsEmpty("project", project_config)
                /\ lookup.key # None
                     => lookup.value =
                          IF lookup.key \in DOMAIN user_config
                          THEN user_config[lookup.key]
                          ELSE IF lookup.key \in DOMAIN default_config
                          THEN default_config[lookup.key]
                          ELSE "ValueError"

\* the project file is not JSON, the user file holds the key looked up
C23_Witness ==
    /\ config_pc = "constructed"
    /\ config_files["project"] = InvalidJson
    /\ config_files["user"].valid
    /\ lookup.key # None
    /\ lookup.key \in DOMAIN config_files["user"].data
    /\ lookup.value = "user"
    /\ Len(warnings) = 1

\* C24: a SIGINT delivered while the session is not yet created and assigned
\* raises nothing: it sets should-exit, or force-exits when it was set
C24_StartupSigIntQuitsCleanly ==
    \A i \in 1..Len(sigint) :
        sigint[i].session = "unset"
            => /\ client_pc # "raised"
               /\ should_exit \/ client_pc = "exited"

\* the step is the delivery of a SIGINT to a client with a running session
SigIntOnRunning ==
    /\ Len(sigint') = Len(sigint) + 1
    /\ session = "running"

\* the step registers one more task, sending on the interrupt channel
SchedulesInterrupt ==
    \E t \in tasks' \ tasks :
        /\ t.coro = "_send_session_stream_interrupt"
        /\ tasks' = tasks \cup {t}
        /\ loop_tasks'[t] = "pending"

\* C27: with a running session, a SIGINT under a held interrupt lock only
\* schedules an interrupt message and leaves should-exit as it was; with the
\* lock free the first SIGINT sets should-exit and a SIGINT that finds
\* should-exit set force-exits the process
C27_SigIntOnRunningSession ==
    [][SigIntOnRunning =>
         IF interrupt_lock
         THEN /\ SchedulesInterrupt
              /\ should_exit' = should_exit
              /\ client_pc' = client_pc
              /\ channel' = channel
         ELSE IF should_exit
         THEN client_pc' = "exited"
         ELSE /\ should_exit'
              /\ client_pc' = client_pc
              /\ tasks' = tasks]_vars

\* three SIGINTs on a running session: under the lock, then the first and the
\* second with the lock free; the interrupt message was sent
C27_Witness ==
    /\ Len(sigint) = 3
    /\ \A i \in 1..3 : sigint[i].session = "running"
    /\ sigint[1].locked
    /\ ~sigint[2].locked /\ ~sigint[2].was_set
    /\ ~sigint[3].locked /\ sigint[3].was_set
    /\ channel = 1
    /\ client_pc = "exited"

\* the tasks the loop has not finished
NotCompleted ==
    {t \in DOMAIN loop_tasks : loop_tasks[t] \in {"pending", "cancelling"}}

\* the tasks whose done-callback has not been called
NotCleanedUp == {t \in DOMAIN loop_tasks : loop_tasks[t] # "cleaned"}

\* the session is stopped before any task is cancelled, and when _run returns
\* no registered task is left running uncancelled
StopsThenCancels ==
    /\ (\E t \in DOMAIN loop_tasks : loop_tasks[t] = "cancelling")
         => session = "stopped"
    /\ client_pc = "done"
         => /\ session = "stopped"
            /\ \A t \in tasks : loop_tasks[t] # "pending"

\* C28 as stated: once should-exit is set _run comes to its end, having
\* stopped the session and then cancelled the registered tasks, and _tasks
\* is at all times the set of created tasks not yet completed
C28_ShutdownAfterShouldExit ==
    /\ should_exit ~> (client_pc = "done")
    /\ []StopsThenCancels
    /\ [](tasks = NotCompleted)

\* C28: once should-exit is set _run comes to its end, having stopped the
\* session and then cancelled the registered tasks, unless a further SIGINT
\* force-exits the process first; _tasks is at all times the set of created
\* tasks whose done-callback has not run, which holds every task not yet
\* completed
C28_ShutdownUnlessForceExit ==
    /\ should_exit ~> (client_pc \in {"done", "exited"})
    /\ []StopsThenCancels
    /\ [](tasks = NotCleanedUp /\ NotCompleted \subseteq tasks)

\* _run has returned after a q, an interrupt task was registered on the way,
\* and every task has ended and been removed
C28_Witness ==
    /\ client_pc = "done"
    /\ should_exit
    /\ session = "stopped"
    /\ Len(sigint) = 1
    /\ sigint[1].locked
    /\ tasks = {}
    /\ \A t \in StartupTasks : loop_tasks[t] = "cleaned"

\* the step feeds the rest of exactly one line, newline included
CompletesOneLine ==
    /\ pos' > pos
    /\ text[pos'] = NL
    /\ \A i \in (pos + 1)..(pos' - 1) : text[i] # NL

\* the line that step completes
CompletedLine == stream.cur_line \o SubSeq(text, pos + 1, pos' - 1)

\* the step completed the edit e: it is the one more edit of the session
EditCompleted(e) ==
    /\ stream'.mode = "Prose"
    /\ file_edits' = Append(file_edits, e)

\* C25: a header section that closes and decodes has has_code true exactly
\* when the closing line is @@code; then the parser is in Code, where every
\* line but @@end is content and @@end completes the edit; closed by @@end
\* the edit is completed at once and the parser is back in Prose
C25_ClosingLineDecidesCode ==
    [][CompletesOneLine =>
         LET line == CompletedLine
             r == stream'.result
         IN  /\ (/\ stream.mode = "Header"
                 /\ line \in {CodeMarker, EndMarker}
                 /\ r.ok)
                  => /\ r.has_code <=> (line = CodeMarker)
                     /\ line = CodeMarker
                          => /\ stream'.mode = "Code"
                             /\ stream'.code = <<>>
                             /\ file_edits' = file_edits
                     /\ line = EndMarker => EditCompleted(r.file_edit)
             /\ (stream.mode = "Code" /\ line # EndMarker)
                  => /\ stream'.mode = "Code"
                     /\ stream'.code = Append(stream.code, line)
                     /\ file_edits' = file_edits
             /\ (stream.mode = "Code" /\ line = EndMarker)
                  => /\ stream'.mode = "Prose"
                     /\ Len(file_edits') = Len(file_edits) + 1]_vars

\* a code section holding a @@start and a @@code line was closed by @@end
\* and gave one edit
C25_Witness ==
    /\ stream.outcome = "done"
    /\ stream.mode = "Prose"
    /\ Len(file_edits) = 1
    /\ \E i, j \in 1..Len(text) :
         /\ i < j
         /\ StartsWith(SubSeq(text, i, Len(text)), TextLine(CodeMarker))
         /\ StartsWith(SubSeq(text, j, Len(text)), TextLine(CodeMarker))
    /\ \E k \in 1..Len(file_edits[1].replacements) :
         Len(file_edits[1].replacements[k].new_lines) = 5

\* the prefixes of the three markers, the empty one and the whole marker
\* included
MarkerPrefixes ==
    UNION {{SubSeq(m, 1, k) : k \in 0..Len(m)} :
              m \in {StartMarker, CodeMarker, EndMarker}}

\* C26: for the line in progress p, _could_be_special(p) is true exactly when
\* p is a prefix of @@start, @@code or @@end; all prefixes of a line one of
\* the other hooks accepts are buffered; and in Prose nothing of a marker
\* prefix has been shown, while a line that is no marker prefix is shown whole
C26_BuffersExactlyMarkerPrefixes ==
    LET p == stream.cur_line
    IN  /\ could_be_special(p) <=> p \in MarkerPrefixes
        /\ (starts_special(p) \/ ends_special(p) \/ ends_code(p))
             => \A k \in 0..Len(p) : could_be_special(SubSeq(p, 1, k))
        /\ stream.mode = "Prose"
             => /\ p \in MarkerPrefixes => stream.shown = 0
                /\ p \notin MarkerPrefixes => stream.shown = Len(p)

\* a whole @@end line is in progress in Prose and held back, after a line
\* that began like a marker and was shown
C26_Witness ==
    /\ stream.mode = "Prose"
    /\ stream.cur_line = EndMarker
    /\ stream.shown = 0
    /\ stream.held_back
    /\ stream.prose = TextLine(<<"@", "@", "x">>)

\* C29 as stated: every path the engine has added to the tracked set exists
\* on disk, and every path the engine has unlinked is not tracked
C29_AddedExistUnlinkedUntracked ==
    /\ \A p \in history.added : Exists(disk, p)
    /\ \A p \in history.unlinked : p \notin files

\* C29: a path whose latest addition or unlink by the engine is an addition
\* is tracked and exists on disk; one whose latest is an unlink is neither
\* tracked nor on disk
C29_LatestOperationDecides ==
    \A p \in DOMAIN history.latest :
        /\ history.latest[p] = "add" => p \in files /\ Exists(disk, p)
        /\ history.latest[p] = "unlink" => p \notin files /\ ~Exists(disk, p)

\* the batch was aborted by an error after the engine added one path and
\* unlinked another
C29_Witness ==
    /\ pc = "error"
    /\ \E p, q \in DOMAIN history.latest :
         /\ history.latest[p] = "add"
         /\ history.latest[q] = "unlink"

\* C30: in a batch during which only the engine writes to the filesystem, no
\* loop iteration requests the conflict confirmation
C30_NoConflictWithoutExternalWrite ==
    \A i \in 1..Len(last.log) : last.log[i].arg # "conflict"

\* C31: the FileEdit of a decoded header has a rename target only when the
\* action is rename-file, is_creation only when it is create-file and
\* is_deletion only when it is delete-file
C31_RenameTargetOnlyForRename ==
    (decoded.closing # None /\ decoded.result.ok)
        => LET e == decoded.result.file_edit
               a == decoded.header.action
           IN  /\ e.rename_file_path # None => a = "rename-file"
               /\ e.is_creation => a = "create-file"
               /\ e.is_deletion => a = "delete-file"

\* the step is a loop iteration that raised
FailingStep == IsEditStep /\ pc' = "error"

\* the filesystem and the tracked set are after the step what they were
StateKept == disk' = disk /\ files' = files

\* C32 as stated: a loop iteration that raises leaves the filesystem and the
\* tracked set as they were before it, whatever the edit's is_creation,
\* is_deletion and rename target
C32_FailingEditChangesNothing ==
    [][FailingStep => StateKept]_vars

\* the failing edit raised before any step that writes: it is no creation
\* edit or failed the creation check itself, and it carries no rename target
\* or failed before the content step
FailedBeforeWriting ==
    /\ ~last'.edit.is_creation \/ error' = "create existing file"
    /\ \/ last'.edit.rename_file_path = None
       \/ error' # "overlapping replacements"

\* C32: a loop iteration that raises before its edit's creation and rename
\* were carried out leaves the filesystem and the tracked set as they were
C32_EarlyFailureChangesNothing ==
    [][(FailingStep /\ FailedBeforeWriting) => StateKept]_vars

\* the second edit of a batch, no creation and with a rename target, raised
\* on the existing target after the first edit had created a file
C32_Witness ==
    /\ pc = "error"
    /\ idx = 2
    /\ error = "rename to existing file"
    /\ ~last.edit.is_creation
    /\ last.edit.is_deletion
    /\ history.added # {}
====
